---- MODULE Spec2Model ----
(***************************************************************************)
(* examples/babi_rnn.ipynb: the bAbI story parser (tokenize,               *)
(* parse_stories, get_stories), the vocabulary index and                   *)
(* vectorize_stories.  Strings are sequences of one-character strings, a   *)
(* token is such a sequence, and Python exceptions are an explicit         *)
(* "raised" outcome.                                                       *)
(***************************************************************************)
EXTENDS Integers, Sequences, FiniteSets, TLC

\* ------------------------------------------------------------------ bounds
MaxSentLen == 3      \* longest sentence fed to tokenize on its own
MaxLines == 4        \* longest corpus fed to get_stories
MaxMaxLength == 3    \* largest max_length passed to get_stories
MaxTrainLines == 3   \* longest train file given to the vectorizer
MaxTestLines == 2    \* longest test file given to the vectorizer
MaxW == 4            \* largest width passed to vectorize_stories

\* ------------------------------------------------------- characters (str)
Letters ==
  {"a","b","c","d","e","f","g","h","i","j","k","l","m","n","o","p","q","r",
   "s","t","u","v","w","x","y","z","A","B","C","D","E","F","G","H","I","J",
   "K","L","M","N","O","P","Q","R","S","T","U","V","W","X","Y","Z"}

Digits == {"0","1","2","3","4","5","6","7","8","9"}

\* the characters in code-point order; Ord is the position, so that
\* comparing Ord compares code points
Ascii ==
  <<"\t","\n"," ",".","0","1","2","3","4","5","6","7","8","9","?",
    "A","B","C","D","E","F","G","H","I","J","K","L","M","N","O","P","Q","R",
    "S","T","U","V","W","X","Y","Z","_",
    "a","b","c","d","e","f","g","h","i","j","k","l","m","n","o","p","q","r",
    "s","t","u","v","w","x","y","z">>

Ord(c) == CHOOSE k \in 1..Len(Ascii) : Ascii[k] = c

\* \s of str.strip() and str.split()
IsSpace(c) == c \in {" ", "\t", "\n"}

\* \w of the re module
IsWord(c) == c \in Letters \cup Digits \cup {"_"}

\* str.strip(): drop leading and trailing whitespace
RECURSIVE lstrip(_)
lstrip(s) ==
  IF s # <<>> /\ IsSpace(Head(s)) THEN lstrip(Tail(s)) ELSE s

RECURSIVE rstrip(_)
rstrip(s) ==
  IF s # <<>> /\ IsSpace(s[Len(s)]) THEN rstrip(SubSeq(s, 1, Len(s) - 1)) ELSE s

strip(s) == rstrip(lstrip(s))

\* last index of the run of non-word characters that starts at i
RECURSIVE RunEnd(_, _)
RunEnd(s, i) ==
  IF i < Len(s) /\ ~IsWord(s[i + 1]) THEN RunEnd(s, i + 1) ELSE i

\* re.split('(\W+)?', s) as the notebook's interpreter runs it (the
\* FutureWarning in its output: an empty match does not split): the pieces
\* between the maximal runs of non-word characters, each followed by the run
\* the group captured
RECURSIVE re_split(_, _, _, _)
re_split(s, i, piece, out) ==
  IF i > Len(s) THEN Append(out, piece)
  ELSE IF IsWord(s[i]) THEN re_split(s, i + 1, Append(piece, s[i]), out)
  ELSE LET j == RunEnd(s, i)
       IN  re_split(s, j + 1, <<>>, out \o <<piece, SubSeq(s, i, j)>>)

\* [f(x) for x in xs]
RECURSIVE StripAll(_)
StripAll(xs) ==
  IF xs = <<>> THEN <<>> ELSE <<strip(Head(xs))>> \o StripAll(Tail(xs))

NonEmpty(x) == x # <<>>

\* tokenize without the strip() of the fragments
tokenize_nostrip(sent) == SelectSeq(re_split(sent, 1, <<>>, <<>>), NonEmpty)

\* tokenize(sent)
tokenize(sent) == SelectSeq(StripAll(re_split(sent, 1, <<>>, <<>>)), NonEmpty)

\* ------------------------------------------------------- str helpers
\* index of the first occurrence of c in s, 0 when there is none
FirstIdx(s, c) ==
  IF \E k \in 1..Len(s) : s[k] = c
  THEN CHOOSE k \in 1..Len(s) : s[k] = c /\ \A m \in 1..(k - 1) : s[m] # c
  ELSE 0

\* s.split(c): the fields between every occurrence of c
RECURSIVE split_on(_, _)
split_on(s, c) ==
  LET k == FirstIdx(s, c)
  IN  IF k = 0 THEN <<s>>
      ELSE <<SubSeq(s, 1, k - 1)>> \o split_on(SubSeq(s, k + 1, Len(s)), c)

\* s.split(): the maximal runs of non-whitespace characters
RECURSIVE split_ws(_, _, _)
split_ws(s, cur, out) ==
  IF s = <<>> THEN (IF cur = <<>> THEN out ELSE Append(out, cur))
  ELSE IF IsSpace(Head(s))
       THEN split_ws(Tail(s), <<>>, IF cur = <<>> THEN out ELSE Append(out, cur))
       ELSE split_ws(Tail(s), Append(cur, Head(s)), out)

\* int(s) accepts the decimal digits, with whitespace around them
IsInt(s) ==
  LET t == strip(s)
  IN  t # <<>> /\ \A k \in 1..Len(t) : t[k] \in Digits

DigitVal(c) == Ord(c) - Ord("0")

RECURSIVE DecVal(_, _)
DecVal(t, acc) ==
  IF t = <<>> THEN acc ELSE DecVal(Tail(t), 10 * acc + DigitVal(Head(t)))

int(s) == DecVal(strip(s), 0)

\* ------------------------------------------------------- parse_stories
\* an entry of the story buffer: a list of tokens, or the str ''
List(toks) == [str |-> FALSE, v |-> toks]

EmptyStr == [str |-> TRUE, v |-> <<>>]

\* truth value of a buffer entry ('' and [] are false)
Truthy(x) == x.v # <<>>

\* story[k] for a Python index k (negative indices count from the end)
InRange(story, k) == -Len(story) <= k /\ k < Len(story)

Item(story, k) == IF k >= 0 THEN story[k + 1] ELSE story[Len(story) + k + 1]

\* nid, line = line.split(' ', 1): the unpacking needs the two parts
HasSep(line) == FirstIdx(line, " ") # 0

NidPart(line) == SubSeq(line, 1, FirstIdx(line, " ") - 1)

Content(line) == SubSeq(line, FirstIdx(line, " ") + 1, Len(line))

IsQuestion(content) == FirstIdx(content, "\t") # 0

Raise == [ok |-> FALSE, story |-> <<>>, data |-> <<>>]

\* [story[i - 1] for i in supporting]
RECURSIVE Select(_, _)
Select(story, ids) ==
  IF ids = <<>> THEN <<>>
  ELSE <<Item(story, int(Head(ids)) - 1)>> \o Select(story, Tail(ids))

\* the comprehension without its "if x"
KeepAll(story) == story

\* [x for x in story if x]
AllSubstories(story) == SelectSeq(story, Truthy)

\* the question branch without story.append('')
question_line_noappend(story, data, content, only_supporting) ==
  LET f == split_on(content, "\t")
  IN  IF Len(f) # 3 THEN Raise
      ELSE LET q == tokenize(f[1])
               a == f[2]
               ids == split_ws(f[3], <<>>, <<>>)
           IN  IF only_supporting
               THEN IF \E k \in 1..Len(ids) : ~IsInt(ids[k]) THEN Raise
                    ELSE IF \E k \in 1..Len(ids) : ~InRange(story, int(ids[k]) - 1)
                         THEN Raise
                    ELSE [ok |-> TRUE,
                          story |-> story,
                          data |-> Append(data, [story |-> Select(story, ids),
                                                 q |-> q, a |-> a])]
               ELSE [ok |-> TRUE,
                     story |-> story,
                     data |-> Append(data, [story |-> AllSubstories(story),
                                            q |-> q, a |-> a])]

\* the body of the question branch
question_line(story, data, content, only_supporting) ==
  LET f == split_on(content, "\t")
  IN  IF Len(f) # 3 THEN Raise
      ELSE LET q == tokenize(f[1])
               a == f[2]
               ids == split_ws(f[3], <<>>, <<>>)
           IN  IF only_supporting
               THEN IF \E k \in 1..Len(ids) : ~IsInt(ids[k]) THEN Raise
                    ELSE IF \E k \in 1..Len(ids) : ~InRange(story, int(ids[k]) - 1)
                         THEN Raise
                    ELSE [ok |-> TRUE,
                          story |-> Append(story, EmptyStr),
                          data |-> Append(data, [story |-> Select(story, ids),
                                                 q |-> q, a |-> a])]
               ELSE [ok |-> TRUE,
                     story |-> Append(story, EmptyStr),
                     data |-> Append(data, [story |-> AllSubstories(story),
                                            q |-> q, a |-> a])]

\* the loop body with a malformed line skipped instead of raising
parse_line_skip(story, data, raw, only_supporting) ==
  LET line == strip(raw)
  IN  IF ~HasSep(line) \/ ~IsInt(NidPart(line)) THEN [ok |-> TRUE, story |-> story, data |-> data]
      ELSE LET r == question_line(IF int(NidPart(line)) = 1 THEN <<>> ELSE story,
                                  data, Content(line), only_supporting)
           IN  IF IsQuestion(Content(line))
               THEN (IF r.ok THEN r ELSE [ok |-> TRUE, story |-> story, data |-> data])
               ELSE [ok |-> TRUE,
                     story |-> Append(IF int(NidPart(line)) = 1 THEN <<>> ELSE story,
                                      List(tokenize(Content(line)))),
                     data |-> data]

\* one iteration of "for line in lines"
parse_line(story, data, raw, only_supporting) ==
  LET line == strip(raw)
  IN  IF ~HasSep(line) THEN Raise
      ELSE IF ~IsInt(NidPart(line)) THEN Raise
      ELSE LET nid == int(NidPart(line))
               content == Content(line)
               st == IF nid = 1 THEN <<>> ELSE story
           IN  IF IsQuestion(content)
               THEN question_line(st, data, content, only_supporting)
               ELSE [ok |-> TRUE,
                     story |-> Append(st, List(tokenize(content))),
                     data |-> data]

\* ------------------------------------------------------- get_stories
RaiseVal == [ok |-> FALSE, val |-> EmptyStr]

\* x + y on two buffer entries: list + list or str + str, a TypeError otherwise
RECURSIVE reduce_add(_, _)
reduce_add(acc, rest) ==
  IF rest = <<>> THEN [ok |-> TRUE, val |-> acc]
  ELSE IF acc.str # Head(rest).str THEN RaiseVal
  ELSE reduce_add([str |-> acc.str, v |-> acc.v \o Head(rest).v], Tail(rest))

\* flatten = lambda data: reduce(lambda x, y: x + y, data); reduce() of an
\* empty sequence with no initial value is a TypeError
flatten(story) ==
  IF story = <<>> THEN RaiseVal ELSE reduce_add(Head(story), Tail(story))

RaiseData == [ok |-> FALSE, data |-> <<>>]

\* "not max_length": None and 0 are false
NotMaxLength(ml_supplied, max_length) == ~ml_supplied \/ max_length = 0

\* the list comprehension of get_stories, left to right
RECURSIVE comprehension(_, _, _, _)
comprehension(data, ml_supplied, max_length, out) ==
  IF data = <<>> THEN [ok |-> TRUE, data |-> out]
  ELSE LET ex == Head(data)
           fl == flatten(ex.story)
       IN  IF NotMaxLength(ml_supplied, max_length)
           THEN IF ~fl.ok THEN RaiseData
                ELSE comprehension(Tail(data), ml_supplied, max_length,
                       Append(out, [story |-> fl.val, q |-> ex.q, a |-> ex.a]))
           ELSE IF ~fl.ok THEN RaiseData
           ELSE IF Len(fl.val.v) < max_length
                THEN comprehension(Tail(data), ml_supplied, max_length,
                       Append(out, [story |-> fl.val, q |-> ex.q, a |-> ex.a]))
                ELSE comprehension(Tail(data), ml_supplied, max_length, out)

\* get_stories after parse_stories returned: the comprehension, then
\* print(type(data), data[0]), an IndexError on an empty list
get_stories(data, ml_supplied, max_length) ==
  LET r == comprehension(data, ml_supplied, max_length, <<>>)
  IN  IF ~r.ok THEN RaiseData
      ELSE IF r.data = <<>> THEN RaiseData
      ELSE r

\* ------------------------------------------------------- the input files
L_n1 == <<"1"," ","a",".","\n">>

L_q2 == <<"2"," ","a","?","\t","b","\t","1","\n">>

L_n2 == <<"2"," ","a","b"," ","b","\n">>

L_n3 == <<"3"," ","b"," ","a","\n">>

L_q3 == <<"3"," ","b","?","\t","a","\t","2"," ","0","\n">>

L_q4 == <<"4"," ","b","?","\t","a","\t","3"," ","1">>

L_q1 == <<"1"," ","a","?","\t","b","\t","1","\n">>

L_nosep == <<"2","a","\n">>

L_twofields == <<"2"," ","a","\t","b","\n">>

LineSet == {L_n1, L_n2, L_q2, L_n3, L_q3, L_q4, L_q1, L_nosep, L_twofields}

RECURSIVE SeqsUpTo(_, _)
SeqsUpTo(S, n) ==
  IF n = 0 THEN {<<>>}
  ELSE LET P == SeqsUpTo(S, n - 1)
       IN  P \cup {Append(p, x) : p \in {pp \in P : Len(pp) = n - 1}, x \in S}

Corpora == SeqsUpTo(LineSet, MaxLines)

\* parse_stories(lines, only_supporting): the loop over all the lines
RECURSIVE parse_loop(_, _, _, _)
parse_loop(ls, st, dt, os) ==
  IF ls = <<>> THEN [ok |-> TRUE, story |-> st, data |-> dt]
  ELSE LET r == parse_line(st, dt, Head(ls), os)
       IN  IF r.ok THEN parse_loop(Tail(ls), r.story, r.data, os) ELSE Raise

parse_stories(ls, os) == parse_loop(ls, <<>>, <<>>, os)

\* train = get_stories(tar.extractfile(...)): the lists the two default calls
\* return for the files of a set, the calls that raise left out
StoriesOf(files) ==
  LET Run(f) == LET p == parse_stories(f, FALSE)
                IN  IF p.ok THEN get_stories(p.data, FALSE, 0) ELSE RaiseData
  IN  {Run(f).data : f \in {g \in files : Run(g).ok}}

\* ------------------------------------------------------- vocabulary
\* str < str: code points, a proper prefix first
RECURSIVE StrLess(_, _)
StrLess(s, t) ==
  IF t = <<>> THEN FALSE
  ELSE IF s = <<>> THEN TRUE
  ELSE IF Head(s) # Head(t) THEN Ord(Head(s)) < Ord(Head(t))
  ELSE StrLess(Tail(s), Tail(t))

\* sorted(vocab)
RECURSIVE sorted(_)
sorted(S) ==
  IF S = {} THEN <<>>
  ELSE LET m == CHOOSE x \in S : \A y \in S \ {x} : StrLess(x, y)
       IN  <<m>> \o sorted(S \ {m})

SeqToSet(q) == {q[k] : k \in 1..Len(q)}

\* set(story + q + [answer])
ExampleTokens(ex) == SeqToSet(ex.story.v) \cup SeqToSet(ex.q) \cup {ex.a}

\* vocab |= ... for story, q, answer in train + test
VocabSet(examples) == UNION {ExampleTokens(examples[k]) : k \in 1..Len(examples)}

\* the ids counted from 0
word_idx_zero(voc) == [c \in SeqToSet(voc) |-> (CHOOSE k \in 1..Len(voc) : voc[k] = c) - 1]

\* dict((c, i + 1) for i, c in enumerate(vocab))
make_word_idx(voc) == [c \in SeqToSet(voc) |-> (CHOOSE k \in 1..Len(voc) : voc[k] = c)]

Max(S) == CHOOSE x \in S : \A y \in S : y <= x

\* story_maxlen = max(map(len, (x for x, _, _ in train + test)))
story_maxlen_of(examples) == Max({Len(examples[k].story.v) : k \in 1..Len(examples)})

\* query_maxlen = max(map(len, (x for _, x, _ in train + test)))
query_maxlen_of(examples) == Max({Len(examples[k].q) : k \in 1..Len(examples)})

\* ------------------------------------------------------- vectorize_stories
\* [word_idx[w] for w in ws]
RECURSIVE lookup(_, _)
lookup(widx, ws) ==
  IF ws = <<>> THEN <<>> ELSE <<widx[Head(ws)]>> \o lookup(widx, Tail(ws))

Known(widx, ws) == \A k \in 1..Len(ws) : ws[k] \in DOMAIN widx

Zeros(n) == [k \in 1..n |-> 0]

\* pad_sequences(seqs, maxlen=maxlen): every row left-padded with 0 to maxlen,
\* failing on a row longer than maxlen
pad_sequences(seqs, maxlen) ==
  IF \E k \in 1..Len(seqs) : Len(seqs[k]) > maxlen
  THEN [ok |-> FALSE, rows |-> <<>>]
  ELSE [ok |-> TRUE,
        rows |-> [k \in 1..Len(seqs) |-> Zeros(maxlen - Len(seqs[k])) \o seqs[k]]]

\* the 1 written one place to the left
one_hot_shifted(widx, answer) ==
  [k \in 0..Cardinality(DOMAIN widx) |-> IF k = widx[answer] - 1 THEN 1 ELSE 0]

\* y = np.zeros(len(word_idx) + 1); y[word_idx[answer]] = 1
one_hot(widx, answer) ==
  [k \in 0..Cardinality(DOMAIN widx) |-> IF k = widx[answer] THEN 1 ELSE 0]

RaiseVec == [ok |-> FALSE, xs |-> <<>>, xqs |-> <<>>, ys |-> <<>>]

\* the two maxlen arguments exchanged
vectorize_swapped(dt, widx, smax, qmax) ==
  IF \E k \in 1..Len(dt) : ~(Known(widx, dt[k].story.v) /\ Known(widx, dt[k].q)
                             /\ dt[k].a \in DOMAIN widx)
  THEN RaiseVec
  ELSE LET xs == [k \in 1..Len(dt) |-> lookup(widx, dt[k].story.v)]
           xqs == [k \in 1..Len(dt) |-> lookup(widx, dt[k].q)]
           ys == [k \in 1..Len(dt) |-> one_hot(widx, dt[k].a)]
           px == pad_sequences(xs, qmax)
           pq == pad_sequences(xqs, smax)
       IN  IF px.ok /\ pq.ok
           THEN [ok |-> TRUE, xs |-> px.rows, xqs |-> pq.rows, ys |-> ys]
           ELSE RaiseVec

\* xq built from the story instead of the query
vectorize_xq_story(dt, widx, smax, qmax) ==
  IF \E k \in 1..Len(dt) : ~(Known(widx, dt[k].story.v) /\ Known(widx, dt[k].q)
                             /\ dt[k].a \in DOMAIN widx)
  THEN RaiseVec
  ELSE LET xs == [k \in 1..Len(dt) |-> lookup(widx, dt[k].story.v)]
           xqs == [k \in 1..Len(dt) |-> lookup(widx, dt[k].story.v)]
           ys == [k \in 1..Len(dt) |-> one_hot(widx, dt[k].a)]
           px == pad_sequences(xs, smax)
           pq == pad_sequences(xqs, qmax)
       IN  IF px.ok /\ pq.ok
           THEN [ok |-> TRUE, xs |-> px.rows, xqs |-> pq.rows, ys |-> ys]
           ELSE RaiseVec

\* vectorize_stories(data, word_idx, story_maxlen, query_maxlen)
vectorize_stories(dt, widx, smax, qmax) ==
  IF \E k \in 1..Len(dt) : ~(Known(widx, dt[k].story.v) /\ Known(widx, dt[k].q)
                             /\ dt[k].a \in DOMAIN widx)
  THEN RaiseVec
  ELSE LET xs == [k \in 1..Len(dt) |-> lookup(widx, dt[k].story.v)]
           xqs == [k \in 1..Len(dt) |-> lookup(widx, dt[k].q)]
           ys == [k \in 1..Len(dt) |-> one_hot(widx, dt[k].a)]
           px == pad_sequences(xs, smax)
           pq == pad_sequences(xqs, qmax)
       IN  IF px.ok /\ pq.ok
           THEN [ok |-> TRUE, xs |-> px.rows, xqs |-> pq.rows, ys |-> ys]
           ELSE RaiseVec

\* ------------------------------------------------------- state
VARIABLES
  pc,               \* position in the run
  lines,            \* f.readlines()
  only_supporting,  \* get_stories(only_supporting=...)
  ml_supplied,      \* max_length is not None
  max_length,       \* get_stories(max_length=...)
  i,                \* lines consumed by the loop of parse_stories
  story,            \* parse_stories: story
  data,             \* parse_stories: data
  parsed,           \* the list parse_stories returned
  result,           \* the list get_stories returned
  sent,             \* tokenize: sent
  toks,             \* tokenize: the list returned
  train,            \* train
  test,             \* test
  vocab,            \* vocab, after sorted()
  vocab_size,       \* vocab_size
  word_idx,         \* word_idx
  vin,              \* the arguments of the call of vectorize_stories
  vout              \* what the call returned

vars == <<pc, lines, only_supporting, ml_supplied, max_length, i, story, data,
          parsed, result, sent, toks, train, test, vocab, vocab_size, word_idx,
          vin, vout>>

parsevars == <<lines, only_supporting, ml_supplied, max_length, i, story, data,
               parsed, result>>

tokvars == <<sent, toks>>

vecvars == <<train, test, vocab, vocab_size, word_idx, vin, vout>>

NoCall == [split |-> "none", story_maxlen |-> 0, query_maxlen |-> 0]

ParseIdle ==
  /\ lines = <<>>
  /\ only_supporting = FALSE
  /\ ml_supplied = FALSE
  /\ max_length = 0
  /\ i = 0
  /\ story = <<>>
  /\ data = <<>>
  /\ parsed = <<>>
  /\ result = <<>>

TokIdle == sent = <<>> /\ toks = <<>>

VecIdle ==
  /\ train = <<>>
  /\ test = <<>>
  /\ vocab = <<>>
  /\ vocab_size = 0
  /\ word_idx = <<>>
  /\ vin = NoCall
  /\ vout = RaiseVec

\* get_stories(f, only_supporting) is called: data = [], story = []
Init ==
  /\ pc = "loop"
  /\ lines \in Corpora
  /\ only_supporting \in BOOLEAN
  /\ ml_supplied = FALSE
  /\ max_length = 0
  /\ i = 0
  /\ story = <<>>
  /\ data = <<>>
  /\ parsed = <<>>
  /\ result = <<>>
  /\ TokIdle
  /\ VecIdle

\* the loop body of parse_stories on the next line
ParseLine ==
  /\ pc = "loop"
  /\ i < Len(lines)
  /\ LET r == parse_line(story, data, lines[i + 1], only_supporting)
     IN  IF r.ok
         THEN /\ story' = r.story
              /\ data' = r.data
              /\ i' = i + 1
              /\ pc' = "loop"
         ELSE /\ pc' = "raised_parse"
              /\ UNCHANGED <<story, data, i>>
  /\ UNCHANGED <<lines, only_supporting, ml_supplied, max_length, parsed, result>>
  /\ UNCHANGED <<tokvars, vecvars>>

\* return data
ParseReturn ==
  /\ pc = "loop"
  /\ i = Len(lines)
  /\ parsed' = data
  /\ pc' = "parsed"
  /\ UNCHANGED <<lines, only_supporting, ml_supplied, max_length, i, story, data, result>>
  /\ UNCHANGED <<tokvars, vecvars>>

\* the rest of get_stories, for the max_length of the call
GetStories ==
  /\ pc = "parsed"
  /\ \E sup \in BOOLEAN, ml \in 0..MaxMaxLength :
       /\ ml_supplied' = sup
       /\ max_length' = (IF sup THEN ml ELSE 0)
       /\ LET r == get_stories(parsed, sup, IF sup THEN ml ELSE 0)
          IN  IF r.ok
              THEN /\ result' = r.data
                   /\ pc' = "done"
              ELSE /\ result' = <<>>
                   /\ pc' = "raised"
  /\ UNCHANGED <<lines, only_supporting, i, story, data, parsed>>
  /\ UNCHANGED <<tokvars, vecvars>>

Next == ParseLine \/ ParseReturn \/ GetStories

Spec == Init /\ [][Next]_vars

\* ------------------------------------------------------- tokenize alone
TokAlphabet == {"a", "b", ".", "?", " "}

DocSentence ==
  <<"B","o","b"," ","d","r","o","p","p","e","d"," ","t","h","e"," ",
    "a","p","p","l","e","."," ","W","h","e","r","e"," ","i","s"," ",
    "t","h","e"," ","a","p","p","l","e","?">>

Sentences == SeqsUpTo(TokAlphabet, MaxSentLen) \cup {DocSentence}

InitTok ==
  /\ pc = "tokenize"
  /\ sent \in Sentences
  /\ toks = <<>>
  /\ ParseIdle
  /\ VecIdle

Tokenize ==
  /\ pc = "tokenize"
  /\ toks' = tokenize(sent)
  /\ pc' = "tokenized"
  /\ UNCHANGED <<sent, parsevars, vecvars>>

NextTok == Tokenize

SpecTok == InitTok /\ [][NextTok]_vars

\* ------------------------------------------------------- the vectorizer
InitVec ==
  /\ pc = "stories"
  /\ train \in StoriesOf(SeqsUpTo(LineSet, MaxTrainLines))
  /\ test \in StoriesOf(SeqsUpTo(LineSet, MaxTestLines))
  /\ vocab = <<>>
  /\ vocab_size = 0
  /\ word_idx = <<>>
  /\ vin = NoCall
  /\ vout = RaiseVec
  /\ ParseIdle
  /\ TokIdle

\* the cells that build vocab, vocab_size and word_idx
BuildVocab ==
  /\ pc = "stories"
  /\ LET voc == sorted(VocabSet(train \o test))
     IN  /\ vocab' = voc
         /\ vocab_size' = Len(voc) + 1
         /\ word_idx' = make_word_idx(voc)
  /\ pc' = "vocab"
  /\ UNCHANGED <<train, test, vin, vout, parsevars, tokvars>>

Split(name) == IF name = "train" THEN train ELSE test

\* a call vectorize_stories(data, word_idx, story_maxlen, query_maxlen)
Vectorize ==
  /\ pc = "vocab"
  /\ \E name \in {"train", "test"}, sw \in 0..MaxW, qw \in 0..MaxW :
       /\ vin' = [split |-> name, story_maxlen |-> sw, query_maxlen |-> qw]
       /\ vout' = vectorize_stories(Split(name), word_idx, sw, qw)
  /\ pc' = "vectorized"
  /\ UNCHANGED <<train, test, vocab, vocab_size, word_idx, parsevars, tokvars>>

\* the notebook's own calls, with the widths it computes over train + test
ScriptVectorize ==
  /\ pc = "vocab"
  /\ \E name \in {"train", "test"} :
       LET sw == story_maxlen_of(train \o test)
           qw == query_maxlen_of(train \o test)
       IN  /\ vin' = [split |-> name, story_maxlen |-> sw, query_maxlen |-> qw]
           /\ vout' = vectorize_stories(Split(name), word_idx, sw, qw)
  /\ pc' = "vectorized"
  /\ UNCHANGED <<train, test, vocab, vocab_size, word_idx, parsevars, tokvars>>

NextVec == BuildVocab \/ Vectorize \/ ScriptVectorize

SpecVec == InitVec /\ [][NextVec]_vars

\* =================================================================== claims
\* ------------------------------------------- the input, read independently
StrippedLine(p) == strip(lines[p])

NidOf(p) == int(NidPart(StrippedLine(p)))

ContentOf(p) == Content(StrippedLine(p))

TabCount(t) == Cardinality({k \in 1..Len(t) : t[k] = "\t"})

\* a question line: its content contains a tab
IsQ(p) == TabCount(ContentOf(p)) > 0

\* a line parse_stories can read: "<decimal id> <content>", a question's
\* content being three tab-separated fields
WellFormedLine(p) ==
  /\ \E k \in 1..Len(StrippedLine(p)) : StrippedLine(p)[k] = " "
  /\ IsInt(NidPart(StrippedLine(p)))
  /\ TabCount(ContentOf(p)) \in {0, 2}

WellFormed == \A p \in 1..Len(lines) : WellFormedLine(p)

QuestionLines(n) == {p \in 1..n : IsQ(p)}

\* the position of the k-th question line
QPos(k) ==
  CHOOSE p \in QuestionLines(Len(lines)) : Cardinality(QuestionLines(p)) = k

\* the first line of the story that line p belongs to: the most recent line
\* with sentence-id 1, the first line of the input when there is none
StoryStart(p) ==
  IF \E j \in 1..p : NidOf(j) = 1
  THEN CHOOSE j \in 1..p : NidOf(j) = 1 /\ \A m \in (j + 1)..p : NidOf(m) # 1
  ELSE 1

\* the tokens of the narrative sentences on the lines a..b, in order
RECURSIVE NarrativeTokens(_, _)
NarrativeTokens(a, b) ==
  IF a > b THEN <<>>
  ELSE (IF IsQ(a) THEN <<>> ELSE tokenize(ContentOf(a))) \o NarrativeTokens(a + 1, b)

ExpectedStory(p) == NarrativeTokens(StoryStart(p), p - 1)

RECURSIVE Flat(_)
Flat(entries) == IF entries = <<>> THEN <<>> ELSE Head(entries).v \o Flat(Tail(entries))

Returned == pc \in {"done"}

GetStoriesEnded == pc \in {"done", "raised"}

\* C1: for a corpus of well-formed lines that opens a story (sentence-id 1)
\* and has at least one question line, read in the default mode, the list parse_stories returns has one Example
\* per question line, and get_stories called without max_length returns a
\* list of that same length, wherever the question lines stand in their
\* stories (a question that is the first line of its story included).
C1_OneExamplePerQuestionLine ==
  (/\ WellFormed
   /\ ~only_supporting
   /\ QuestionLines(Len(lines)) # {}
   /\ NidOf(1) = 1) =>
    /\ pc \in {"parsed", "done", "raised"} =>
         Len(parsed) = Cardinality(QuestionLines(Len(lines)))
    /\ (GetStoriesEnded /\ ~ml_supplied) =>
         /\ pc = "done"
         /\ Len(result) = Cardinality(QuestionLines(Len(lines)))

\* C2: when get_stories is called with a max_length (0 and 1 included), every
\* Example it returns has fewer than max_length story tokens.
C2_ReturnedStoriesShorterThanMaxLength ==
  (Returned /\ ml_supplied) =>
    \A k \in 1..Len(result) : Len(result[k].story.v) < max_length

\* C3: in the default mode the story of every Example is the in-order
\* concatenation of the narrative sentences from the most recent line with
\* sentence-id 1 up to the question line, with nothing from before that line
\* and no empty placeholder of an earlier question line.
C3_StoryIsTheCurrentStory ==
  ~only_supporting =>
    /\ \A k \in 1..Len(data) :
         /\ Flat(data[k].story) = ExpectedStory(QPos(k))
         /\ \A m \in 1..Len(data[k].story) :
              ~data[k].story[m].str /\ data[k].story[m].v # <<>>
    /\ Returned =>
         /\ \A k \in 1..Len(result) :
              \E m \in 1..Len(parsed) :
                /\ result[k].story = List(ExpectedStory(QPos(m)))
                /\ result[k].q = parsed[m].q
                /\ result[k].a = parsed[m].a
         /\ ~ml_supplied =>
              /\ Len(result) = Len(parsed)
              /\ \A k \in 1..Len(result) :
                   result[k].story = List(ExpectedStory(QPos(k)))

\* an Example returned for a question that follows both a reset inside the
\* input and an earlier question of its own story
C3_Witness ==
  /\ Returned
  /\ ~only_supporting
  /\ ~ml_supplied
  /\ \E k \in 1..Len(result) :
       LET p == QPos(k)
       IN  /\ StoryStart(p) > 1
           /\ \E j \in StoryStart(p)..(p - 1) : IsQ(j)
           /\ result[k].story.v # <<>>
           /\ result[k].story.v # NarrativeTokens(1, p - 1)

\* C8: when some line has no space after the sentence-id, or is a question
\* line whose content is not three tab-separated fields, parse_stories never
\* gets past that line and never returns: no Example is handed back, neither
\* those parsed before the line nor one built from it.
BadLine(p) ==
  \/ ~\E k \in 1..Len(StrippedLine(p)) : StrippedLine(p)[k] = " "
  \/ (IsQ(p) /\ TabCount(ContentOf(p)) # 2)

C8_MalformedLineAborts ==
  \A p \in 1..Len(lines) :
    BadLine(p) =>
      /\ i < p
      /\ pc \in {"loop", "raised_parse"}
      /\ parsed = <<>>
      /\ result = <<>>

\* the loop has raised on a malformed line after Examples were collected
C8_Witness ==
  /\ pc = "raised_parse"
  /\ data # <<>>
  /\ BadLine(i + 1)
  /\ parsed = <<>>

\* C10: in a story whose lines carry the sentence-ids 1, 2, 3, ... the story
\* buffer has as many entries as the sentence-id of the last line read, and in
\* only_supporting mode the story of an Example is the list of the tokenized
\* sentences that the question's supporting ids name, in the order listed.
ConsecutiveFrom(a, b) ==
  /\ a <= b
  /\ \A j \in a..b : NidOf(j) = j - a + 1

SupportingIds(p) ==
  LET f == split_on(ContentOf(p), "\t")
      ws == split_ws(f[3], <<>>, <<>>)
  IN  [k \in 1..Len(ws) |-> int(ws[k])]

\* every supporting id of the question on line p names a narrative sentence
\* of its story that stands before it
NamesSentences(p) ==
  \A k \in 1..Len(SupportingIds(p)) :
    /\ SupportingIds(p)[k] \in 1..(NidOf(p) - 1)
    /\ ~IsQ(StoryStart(p) + SupportingIds(p)[k] - 1)

NamedSentences(p) ==
  [k \in 1..Len(SupportingIds(p)) |->
     List(tokenize(ContentOf(StoryStart(p) + SupportingIds(p)[k] - 1)))]

C10_BufferAlignedWithSentenceIds ==
  /\ (i >= 1 /\ ConsecutiveFrom(StoryStart(i), i)) => Len(story) = NidOf(i)
  /\ only_supporting =>
       \A k \in 1..Len(data) :
         LET p == QPos(k)
         IN  (ConsecutiveFrom(StoryStart(p), p) /\ NamesSentences(p)) =>
               data[k].story = NamedSentences(p)

\* a question whose ids are listed out of order and reach across the
\* placeholder of an earlier question
C10_Witness ==
  /\ pc = "parsed"
  /\ only_supporting
  /\ \E k \in 1..Len(parsed) :
       LET p == QPos(k)
           ids == SupportingIds(p)
       IN  /\ ConsecutiveFrom(StoryStart(p), p)
           /\ NamesSentences(p)
           /\ Len(story) = NidOf(p)
           /\ Len(ids) >= 2
           /\ ids[1] > ids[2]
           /\ \E j \in StoryStart(p)..(StoryStart(p) + ids[1] - 2) : IsQ(j)
           /\ parsed[k].story = NamedSentences(p)

\* ------------------------------------------------------------- tokenize
DocTokens ==
  << <<"B","o","b">>, <<"d","r","o","p","p","e","d">>, <<"t","h","e">>,
     <<"a","p","p","l","e">>, <<".">>, <<"W","h","e","r","e">>, <<"i","s">>,
     <<"t","h","e">>, <<"a","p","p","l","e">>, <<"?">> >>

RECURSIVE Join(_)
Join(ts) == IF ts = <<>> THEN <<>> ELSE Head(ts) \o Join(Tail(ts))

NotSpace(c) == ~IsSpace(c)

Squeeze(t) == SelectSeq(t, NotSpace)

\* the starts of the maximal runs of word characters
WordRunStarts(t) ==
  {k \in 1..Len(t) : IsWord(t[k]) /\ (k = 1 \/ ~IsWord(t[k - 1]))}

\* the starts of the maximal runs of non-word characters that hold more than
\* whitespace
PunctRunStarts(t) ==
  {k \in 1..Len(t) :
     /\ ~IsWord(t[k])
     /\ (k = 1 \/ IsWord(t[k - 1]))
     /\ \E m \in k..Len(t) : ~IsWord(t[m]) /\ ~IsSpace(t[m])
                             /\ \A n \in k..m : ~IsWord(t[n])}

IsWordToken(t) == \A k \in 1..Len(t) : IsWord(t[k])

IsPunctToken(t) == \A k \in 1..Len(t) : ~IsWord(t[k])

\* C9: tokenize returns, in order, the word runs and the punctuation runs of
\* its input as separate tokens, with no empty or whitespace-only token and
\* no whitespace around a token; the sentence of its docstring gives
\* Bob, dropped, the, apple, ., Where, is, the, apple, ?.
C9_TokenizeSplitsWordsAndPunctuation ==
  pc = "tokenized" =>
    /\ \A k \in 1..Len(toks) :
         /\ toks[k] # <<>>
         /\ ~IsSpace(toks[k][1])
         /\ ~IsSpace(toks[k][Len(toks[k])])
         /\ IsWordToken(toks[k]) \/ IsPunctToken(toks[k])
    /\ Squeeze(Join(toks)) = Squeeze(sent)
    /\ Cardinality({k \in 1..Len(toks) : IsWordToken(toks[k])})
         = Cardinality(WordRunStarts(sent))
    /\ Cardinality({k \in 1..Len(toks) : IsPunctToken(toks[k])})
         = Cardinality(PunctRunStarts(sent))
    /\ sent = DocSentence => toks = DocTokens

C9_Witness ==
  /\ pc = "tokenized"
  /\ sent = DocSentence
  /\ toks = DocTokens

\* ------------------------------------------------- vocabulary, vectorizer
AllExamples == train \o test

\* the tokens of the stories, the questions and the answers of train and test
TokenUnion ==
  {t \in UNION {SeqToSet(AllExamples[k].story.v) \cup SeqToSet(AllExamples[k].q)
                  : k \in 1..Len(AllExamples)} : TRUE}
    \cup {AllExamples[k].a : k \in 1..Len(AllExamples)}

VocabBuilt == pc \in {"vocab", "vectorized"}

\* C4: word_idx is a bijection between the unique tokens of train and test
\* (story tokens, question tokens, answers) and 1..N, N the number of those
\* tokens, in sorted token order; no token has id 0 and vocab_size is N + 1.
C4_WordIdxIsSortedBijection ==
  VocabBuilt =>
    LET N == Cardinality(TokenUnion)
    IN  /\ DOMAIN word_idx = TokenUnion
        /\ {word_idx[t] : t \in TokenUnion} = 1..N
        /\ \A t, u \in TokenUnion : StrLess(t, u) => word_idx[t] < word_idx[u]
        /\ \A t \in TokenUnion : word_idx[t] # 0
        /\ vocab_size = N + 1

\* a vocabulary with a token and a proper prefix of it, and a token that both
\* splits use
C4_Witness ==
  /\ pc = "vocab"
  /\ Cardinality(TokenUnion) >= 5
  /\ <<"a">> \in TokenUnion /\ <<"a", "b">> \in TokenUnion
  /\ word_idx[<<"a">>] + 1 = word_idx[<<"a", "b">>]
  /\ \E k \in 1..Len(train), m \in 1..Len(test) :
       SeqToSet(train[k].story.v) \cap SeqToSet(test[m].story.v) # {}

Vectorized == pc = "vectorized"

CallData == Split(vin.split)

RightAligned(row, ids, width) ==
  /\ Len(row) = width
  /\ \A j \in 1..Len(ids) : row[width - Len(ids) + j] = ids[j]
  /\ \A j \in 1..(width - Len(ids)) : row[j] = 0

IdsOf(ws) == [j \in 1..Len(ws) |-> word_idx[ws[j]]]

\* C6: for every Example whose story length L is at most the story width W,
\* the story row has W entries, the last L the ids of the story tokens in
\* order and the first W - L all 0; likewise the question row with the
\* question width.
C6_RowsAreLeftPadded ==
  (Vectorized /\ vout.ok) =>
    /\ Len(vout.xs) = Len(CallData)
    /\ Len(vout.xqs) = Len(CallData)
    /\ \A k \in 1..Len(CallData) :
         /\ Len(CallData[k].story.v) <= vin.story_maxlen
         /\ RightAligned(vout.xs[k], IdsOf(CallData[k].story.v), vin.story_maxlen)
         /\ Len(CallData[k].q) <= vin.query_maxlen
         /\ RightAligned(vout.xqs[k], IdsOf(CallData[k].q), vin.query_maxlen)

\* rows that carry both padding and ids, the story and the question differing
C6_Witness ==
  /\ Vectorized
  /\ vout.ok
  /\ \E k \in 1..Len(CallData) :
       /\ 0 < Len(CallData[k].story.v)
       /\ Len(CallData[k].story.v) < vin.story_maxlen
       /\ 0 < Len(CallData[k].q)
       /\ Len(CallData[k].q) < vin.query_maxlen
       /\ CallData[k].story.v # CallData[k].q
       /\ vout.xs[k][1] = 0
       /\ vout.xqs[k][1] = 0

RECURSIVE SumTo(_, _)
SumTo(y, n) == IF n < 0 THEN 0 ELSE y[n] + SumTo(y, n - 1)

\* C7: the answer vector of every Example has length vocabulary size + 1, is
\* 1 at the index that is the answer's id and 0 everywhere else: it sums to 1
\* and index 0 is not set.
C7_AnswerIsOneHot ==
  (Vectorized /\ vout.ok) =>
    LET N == Cardinality(TokenUnion)
    IN  /\ Len(vout.ys) = Len(CallData)
        /\ \A k \in 1..Len(CallData) :
             /\ DOMAIN vout.ys[k] = 0..N
             /\ \A j \in 0..N :
                  vout.ys[k][j] = (IF j = word_idx[CallData[k].a] THEN 1 ELSE 0)
             /\ SumTo(vout.ys[k], N) = 1
             /\ vout.ys[k][0] = 0

\* two Examples with different answers in one call
C7_Witness ==
  /\ Vectorized
  /\ vout.ok
  /\ \E k, m \in 1..Len(CallData) :
       /\ CallData[k].a # CallData[m].a
       /\ vout.ys[k] # vout.ys[m]
       /\ vout.ys[k][word_idx[CallData[k].a]] = 1

====
